---- MODULE Spec2Model ----
(***************************************************************************)
(* A TLA+ model of the paper-search pipeline of PaperSearchAgent           *)
(* (src/src/paper_search.py): the trust policy, the PDF-URL resolver, the  *)
(* Semantic Scholar first pass and backup scan, the arXiv loop and the     *)
(* source dispatch of search_papers.                                       *)
(*                                                                         *)
(* Configuration.  paper_search.py imports REQUIRE_PDF_DOWNLOAD,           *)
(* ENABLE_PDF_URL_ENHANCEMENT and TRUSTED_PDF_SOURCES from config, and     *)
(* src/config.py does not define them: the model lets the two switches     *)
(* take either value and the allow-list take one of a few lists.  They are *)
(* set once, before the first search, and never change.                    *)
(*                                                                         *)
(* Strings.  A Python string is modelled as a sequence of tokens, each     *)
(* token an indivisible run of characters; "a in b" is then "a is a        *)
(* contiguous subsequence of b".  Tokens differing only in letter case are *)
(* different tokens.  None is the one-token sequence NoneVal, which no     *)
(* string of the model contains.                                           *)
(***************************************************************************)
EXTENDS Integers, Sequences, FiniteSets, TLC

VARIABLES
    \* configuration read at import time (paper_search.py:11-21)
    REQUIRE_PDF_DOWNLOAD, ENABLE_PDF_URL_ENHANCEMENT, TRUSTED_PDF_SOURCES,
    SEARCH_SOURCE, ENABLE_SEMANTIC_SCHOLAR,
    \* PaperSearch.s2_client: TRUE when a client object is held, FALSE for None
    s2_client,
    \* one search_papers call
    pc, max_results, source_arg, source, all_papers, idx, paper_results,
    additional_papers, papers_processed, results,
    \* observations of the call: provider calls made and the provider they
    \* went to, the limit asked of it, raw items mapped in the first pass, whether an exception left
    \* search_papers, and what ended the call
    fetch_calls, called_provider, initial_limit, examined_first, escaped, event,
    \* an application of one of the two pure functions to an input
    pure_pc, url_in, trusted_out, paper_in, pdf_urls_out, selected_out,
    \* a later call of the resolver, made after the one on paper_in
    again,
    \* the agent: its configuration (agent_executor.py:50, query_analyzer.py:86)
    USE_FALLBACK_ON_LLM_ERROR, max_search_results,
    \* one execute() call: where it is, the text of the request, what
    \* _call_llm_for_analysis did, what analyze_query returned, the searches
    \* asked of PaperSearch, the list handle_search holds, the exception text
    \* when handling raised, and the messages put on the event queue
    a_pc, combined_text, llm_result, analysis, core_calls, search_results, a_error,
    enqueued,
    \* search_semantic_scholar calls in progress on one PaperSearch object: the
    \* local variables of each
    inv

config_vars == <<REQUIRE_PDF_DOWNLOAD, ENABLE_PDF_URL_ENHANCEMENT,
                 TRUSTED_PDF_SOURCES, SEARCH_SOURCE, ENABLE_SEMANTIC_SCHOLAR,
                 s2_client>>
call_vars == <<pc, max_results, source_arg, source, all_papers, idx, paper_results,
               additional_papers, papers_processed, results, fetch_calls,
               called_provider, initial_limit, examined_first, escaped, event>>
pure_vars == <<pure_pc, url_in, trusted_out, paper_in, pdf_urls_out, selected_out,
               again>>
agent_vars == <<USE_FALLBACK_ON_LLM_ERROR, max_search_results, a_pc, combined_text,
                llm_result, analysis, core_calls, search_results, a_error, enqueued>>
\* what no step of a search_papers call touches
other_vars == <<pure_vars, agent_vars, inv>>
vars == <<config_vars, call_vars, other_vars>>

----------------------------------------------------------------------------
(* Strings as token sequences *)

NoneVal == <<"None">>

\* Python truthiness of an Optional[str]: None and "" are falsy
Truthy(s) == s # NoneVal /\ s # <<>>

\* sub in s
Contains(sub, s) ==
    \E i \in 1..(Len(s) + 1) :
        /\ i + Len(sub) - 1 <= Len(s)
        /\ SubSeq(s, i, i + Len(sub) - 1) = sub

\* s.startswith(p)
StartsWith(s, p) == Len(p) <= Len(s) /\ SubSeq(s, 1, Len(p)) = p

\* s.replace(old, "") for a non-empty old: every occurrence removed, left to right
RECURSIVE Remove(_, _)
Remove(s, old) ==
    IF s = <<>> THEN <<>>
    ELSE IF StartsWith(s, old)
         THEN Remove(SubSeq(s, Len(old) + 1, Len(s)), old)
         ELSE <<Head(s)>> \o Remove(Tail(s), old)

\* s.split("/")[-1]: what follows the last "/" (all of s when it has none)
RECURSIVE LastSegment(_)
LastSegment(s) ==
    IF \E i \in 1..Len(s) : s[i] = "/"
    THEN LastSegment(Tail(s))
    ELSE s

----------------------------------------------------------------------------
(* TrustPolicy: PaperSearch._is_trusted_pdf_url *)

\* the hard-coded literal "arxiv.org/pdf"
ARXIV_PDF_LITERAL == <<"arxiv.org", "/pdf">>

\* the for loop over TRUSTED_PDF_SOURCES from entry k on: TRUE at the first
\* entry found in url
RECURSIVE trusted_source_loop(_, _)
trusted_source_loop(url, k) ==
    IF k > Len(TRUSTED_PDF_SOURCES) THEN FALSE
    ELSE IF Contains(TRUSTED_PDF_SOURCES[k], url) THEN TRUE
    ELSE trusted_source_loop(url, k + 1)

\* a mutated policy: the arXiv rule of line 130 is left out
is_trusted_no_arxiv_rule(url) ==
    IF ~Truthy(url) THEN FALSE
    ELSE trusted_source_loop(url, 1)

is_trusted_pdf_url(url) ==
    IF ~Truthy(url) THEN FALSE
    ELSE IF trusted_source_loop(url, 1) THEN TRUE
    ELSE IF Contains(ARXIV_PDF_LITERAL, url) THEN TRUE
    ELSE FALSE

----------------------------------------------------------------------------
(* PdfUrlResolver: PaperSearch._extract_enhanced_pdf_urls *)

\* a key that externalIds does not hold
Missing == <<"<missing>">>

\* external_ids.get(key, "")
GetOrEmpty(v) == IF v = Missing THEN <<>> ELSE v

\* "if external_ids:": the mapping holds at least one key
HasIds(ids) ==
    \/ ids.ArXiv # Missing \/ ids.PubMed # Missing \/ ids.PMID # Missing
    \/ ids.PMC # Missing \/ ids.DOI # Missing

\* a candidate, with the strategy that produced it
Cand(strategy, url) == [strategy |-> strategy, url |-> url]

\* Strategy 1 (lines 149-152)
open_access_candidates(paper) ==
    LET oa == paper.openAccessPdf
    IN IF oa.present /\ oa.has_url /\ Truthy(oa.url)
       THEN <<Cand("openAccessPdf", oa.url)>> ELSE <<>>

\* lines 158-162
arxiv_id_candidates(ids) ==
    IF ids.ArXiv # Missing
    THEN <<Cand("ArXiv", <<"https://", "arxiv.org", "/pdf", "/">> \o ids.ArXiv \o <<".pdf">>)>>
    ELSE <<>>

\* lines 164-181
pubmed_candidates(ids) ==
    IF ids.PubMed # Missing \/ ids.PMID # Missing \/ ids.PMC # Missing
    THEN LET pmc_id == GetOrEmpty(ids.PMC)
             pmid == GetOrEmpty(ids.PMID)
         IN IF pmc_id # <<>>
            THEN <<Cand("PubMed", <<"https://", "www.", "ncbi.nlm.nih.gov", "/pmc/articles/PMC">>
                                   \o pmc_id \o <<"/pdf/">>)>>
            ELSE IF pmid # <<>>
            THEN <<Cand("PubMed", <<"https://", "pubmed.", "ncbi.nlm.nih.gov", "/">>
                                   \o pmid \o <<"/">>)>>
            ELSE <<>>
    ELSE <<>>

\* lines 219-227: the arXiv id of an arXiv DOI, its "arXiv." prefix (one
\* token, six characters) removed
arxiv_id_of_doi(doi) ==
    LET arxiv_id == LastSegment(doi)
    IN IF StartsWith(arxiv_id, <<"arXiv.">>) THEN Tail(arxiv_id) ELSE arxiv_id

\* lines 187-227: the six DOI rules, each an independent "if"
doi_rule_candidates(doi) ==
    (IF Contains(<<"10.1101">>, doi)
     THEN <<Cand("DOI", <<"https://", "www.", "biorxiv.org", "/content/">> \o doi \o <<"v1.full.pdf">>)>>
     ELSE <<>>)
    \o
    (IF Contains(<<"10.1038">>, doi)
     THEN <<Cand("DOI", <<"https://", "www.", "nature.com", "/articles/">>
                        \o Remove(doi, <<"10.1038", "/">>) \o <<".pdf">>)>>
     ELSE <<>>)
    \o
    (IF Contains(<<"10.1126">>, doi)
     THEN <<Cand("DOI", <<"https://", "science.sciencemag.org", "/content/">>
                        \o LastSegment(doi) \o <<".full.pdf">>)>>
     ELSE <<>>)
    \o
    (IF Contains(<<"10.1109">>, doi)
     THEN <<Cand("DOI", <<"https://", "ieeexplore.ieee.org", "/stamp/stamp.jsp?arnumber=">>
                        \o LastSegment(doi))>>
     ELSE <<>>)
    \o
    (IF Contains(<<"10.1145">>, doi)
     THEN <<Cand("DOI", <<"https://", "dl.acm.org", "/doi/pdf/">> \o doi)>>
     ELSE <<>>)
    \o
    (IF Contains(<<"10.48550">>, doi)
     THEN <<Cand("DOI", <<"https://", "arxiv.org", "/pdf", "/">> \o arxiv_id_of_doi(doi) \o <<".pdf">>)>>
     ELSE <<>>)

\* a mutated fallback: the generic DOI url is appended whatever pdf_urls holds
generic_doi_stacked(so_far, doi) ==
    <<Cand("generic", <<"https://", "doi.org", "/">> \o doi)>>

\* lines 229-233: the generic DOI url, appended when pdf_urls is still empty
generic_doi_candidates(so_far, doi) ==
    IF so_far = <<>>
    THEN <<Cand("generic", <<"https://", "doi.org", "/">> \o doi)>>
    ELSE <<>>

\* lines 146-233: pdf_urls as the strategies leave it
candidate_pdf_urls(paper) ==
    LET ids == paper.externalIds
        s1 == open_access_candidates(paper)
    IN IF ~HasIds(ids) THEN s1
       ELSE LET s3 == s1 \o arxiv_id_candidates(ids) \o pubmed_candidates(ids)
            IN IF ids.DOI = Missing THEN s3
               ELSE LET s4 == s3 \o doi_rule_candidates(ids.DOI)
                    IN s4 \o generic_doi_candidates(s4, ids.DOI)

\* lines 236-240: the candidates the policy trusts, in order
RECURSIVE trusted_pdf_urls(_)
trusted_pdf_urls(cands) ==
    IF cands = <<>> THEN <<>>
    ELSE IF is_trusted_pdf_url(Head(cands).url)
         THEN <<Head(cands)>> \o trusted_pdf_urls(Tail(cands))
         ELSE trusted_pdf_urls(Tail(cands))

\* a mutated selection: the last trusted candidate instead of the first
select_last_trusted(cands) ==
    LET t == trusted_pdf_urls(cands)
    IN IF t # <<>> THEN t[Len(t)].url ELSE NoneVal

\* lines 242-249
select_trusted_url(cands) ==
    LET t == trusted_pdf_urls(cands)
    IN IF t # <<>> THEN t[1].url ELSE NoneVal

\* a mutated resolver: it hands back the link of the first Record of the last
\* search when there is one
extract_remembering_last_search(paper) ==
    IF results # <<>> THEN results[1].rec.pdf_url
    ELSE select_trusted_url(candidate_pdf_urls(paper))

extract_enhanced_pdf_urls(paper) ==
    select_trusted_url(candidate_pdf_urls(paper))

----------------------------------------------------------------------------
(* Raw provider items *)

\* paper.openAccessPdf: None, an object without a url attribute, or an
\* object whose url is u (u may be None or "")
OA_NONE == [present |-> FALSE, has_url |-> FALSE, url |-> NoneVal]
OA_NO_URL == [present |-> TRUE, has_url |-> FALSE, url |-> NoneVal]
OA(u) == [present |-> TRUE, has_url |-> TRUE, url |-> u]

Ids(arxiv, pubmed, pmid, pmc, doi) ==
    [ArXiv |-> arxiv, PubMed |-> pubmed, PMID |-> pmid, PMC |-> pmc, DOI |-> doi]

NO_IDS == Ids(Missing, Missing, Missing, Missing, Missing)

\* title: a string, None (the attribute is there and null), or Missing (no
\* such attribute).  citationCount: 0 also stands for None and for a missing
\* attribute, which lines 265 and 297 treat alike.
Paper(title, oa, ids, cites) ==
    [title |-> title, openAccessPdf |-> oa, externalIds |-> ids, citationCount |-> cites]

ARXIV_URL == <<"https://", "arxiv.org", "/pdf", "/", "2101.00001", ".pdf">>
PUBLISHER_URL == <<"https://", "publisher.example", "/paper.pdf">>
UPPER_URL == <<"https://", "ARXIV.ORG", "/PDF", "/", "2101.00001", ".pdf">>
REDIRECT_URL == <<"https://", "publisher.example", "/?next=", "arxiv.org", "/pdf", "/x">>
BIORXIV_URL == <<"https://", "www.", "biorxiv.org", "/content/", "x">>
SPLIT_URL == <<"https://", "arxiv.org", "/abs", "/pdf">>

DOI_NATURE == <<"10.1038", "/", "s41586-020-0000-0">>
DOI_BIORXIV == <<"10.1101", "/", "2020.01.01">>
DOI_SCIENCE == <<"10.1126", "/", "science.abc">>
DOI_IEEE == <<"10.1109", "/", "CVPR.2016.90">>
DOI_ACM == <<"10.1145", "/", "3292500">>
DOI_ARXIV == <<"10.48550", "/", "arXiv.", "2101.00001">>
DOI_OTHER == <<"10.5555", "/", "x">>
DOI_NATURE_MIXED == <<"10.1038", "/", "s", "10.1101", "-x">>

\* the raw papers a Semantic Scholar batch of the model is made of
P_OPEN == Paper(<<"A">>, OA(ARXIV_URL), NO_IDS, 0)
P_ARXIV == Paper(<<"B">>, OA_NONE, Ids(<<"2101.00001">>, Missing, Missing, Missing, Missing), 1000)
P_NATURE == Paper(<<"C">>, OA(PUBLISHER_URL), Ids(Missing, Missing, Missing, Missing, DOI_NATURE), 5000)
P_BARE == Paper(Missing, OA_NONE, NO_IDS, 0)
P_NULL_TITLE == Paper(NoneVal, OA(ARXIV_URL), NO_IDS, 0)

SearchItems == {P_OPEN, P_ARXIV, P_NATURE, P_BARE, P_NULL_TITLE}

\* an arxiv.Result: its pdf_url is a link under arxiv.org/pdf, or None
R_PDF == [pdf_url |-> <<"http://", "arxiv.org", "/pdf", "/", "2101.00001v1">>]
R_NO_PDF == [pdf_url |-> NoneVal]

ArxivItems == {R_PDF, R_NO_PDF}

----------------------------------------------------------------------------
(* Record normalization: PaperSearch._process_semantic_scholar_paper *)

\* scores are kept as integers, score * SCORE_SCALE
SCORE_SCALE == 10000
MAX_CITATION_BONUS == 2000

Min(a, b) == IF a <= b THEN a ELSE b

\* a mutated score: the bonus is not capped
citation_score_uncapped(citation_count) == SCORE_SCALE + citation_count

\* lines 295-302
citation_score(citation_count) ==
    IF citation_count # 0
    THEN SCORE_SCALE + Min(citation_count, MAX_CITATION_BONUS)
    ELSE SCORE_SCALE

Result(title, pdf_url, src, score) ==
    [title |-> title, pdf_url |-> pdf_url, source |-> src, score |-> score]

NO_RESULT == Result(<<>>, NoneVal, "none", 0)

\* what a call ends with: a PaperSearchResult, None, or an exception
Returned(r) == [kind |-> "result", rec |-> r]
ReturnedNone == [kind |-> "None", rec |-> NO_RESULT]
Raised == [kind |-> "raise", rec |-> NO_RESULT]

\* lines 279-287
paper_pdf_url(paper) ==
    IF ENABLE_PDF_URL_ENHANCEMENT
    THEN extract_enhanced_pdf_urls(paper)
    ELSE IF paper.openAccessPdf.present /\ paper.openAccessPdf.has_url
         THEN paper.openAccessPdf.url
         ELSE NoneVal

\* a mutated mapping: the trust requirement of lines 290-293 is not applied
process_paper_unfiltered(paper) ==
    LET title == IF paper.title = Missing THEN <<"Unknown Title">> ELSE paper.title
    IN IF title = NoneVal THEN Raised
       ELSE Returned(Result(title, paper_pdf_url(paper), "semantic_scholar",
                            citation_score(paper.citationCount)))

\* title[:50] in the log lines 292 and 317 raises TypeError for a None title
process_semantic_scholar_paper(paper) ==
    LET title == IF paper.title = Missing THEN <<"Unknown Title">> ELSE paper.title
        pdf_url == paper_pdf_url(paper)
    IN IF REQUIRE_PDF_DOWNLOAD /\ (~Truthy(pdf_url) \/ ~is_trusted_pdf_url(pdf_url))
       THEN IF title = NoneVal THEN Raised ELSE ReturnedNone
       ELSE IF title = NoneVal THEN Raised
       ELSE Returned(Result(title, pdf_url, "semantic_scholar",
                            citation_score(paper.citationCount)))

\* a collected record, with the position of its raw item in the batch
At(rec, pos) == [rec |-> rec, pos |-> pos]

----------------------------------------------------------------------------
(* Bounds of the model and constants of the program *)

\* largest max_results a caller asks for
MaxResults == 2
\* longest batch whose items are chosen freely
MaxBatch == 3

\* paper_search.py:26
MAX_TOTAL_PAPERS_TO_PROCESS == 200

\* PaperSearchAgent.search_papers(query) without max_results, agent_executor.py:74
DEFAULT_MAX_RESULTS == 5

\* a batch long enough for the backup scan to meet its limit
LongBatchLen == MAX_TOTAL_PAPERS_TO_PROCESS + MaxResults + 1

SeqsUpTo(S, n) == UNION {[1..k -> S] : k \in 0..n}

\* what search_paper(bulk=True) may hand back in results.items: the bulk
\* endpoint does not honour limit, so the length is the provider's choice
S2Batches == SeqsUpTo(SearchItems, MaxBatch) \cup {[i \in 1..LongBatchLen |-> P_BARE]}

\* arxiv.Client.results yields at most Search.max_results results
ArxivBatches(limit) == SeqsUpTo(ArxivItems, Min(limit, MaxBatch))

Sources == {"arxiv", "semantic_scholar"}
\* the source argument: None, a known source, or some other string
SourceArgs == {"None", "arxiv", "semantic_scholar", "pubmed"}

AllowLists ==
    { <<>>,
      << <<"arxiv.org">>, <<"biorxiv.org">> >>,
      << <<"nature.com">>, <<"ncbi.nlm.nih.gov">> >> }

----------------------------------------------------------------------------
(* State machine of one search_papers call *)

TypeOK ==
    /\ REQUIRE_PDF_DOWNLOAD \in BOOLEAN
    /\ ENABLE_PDF_URL_ENHANCEMENT \in BOOLEAN
    /\ TRUSTED_PDF_SOURCES \in AllowLists
    /\ SEARCH_SOURCE \in Sources
    /\ ENABLE_SEMANTIC_SCHOLAR \in BOOLEAN
    /\ s2_client \in BOOLEAN
    /\ pc \in {"idle", "s2_fetch", "first_pass", "backup", "arxiv_fetch", "arxiv_loop", "done"}
    /\ max_results \in 0..(MaxResults + 1) \cup {DEFAULT_MAX_RESULTS}
    /\ a_pc \in {"idle", "analyze", "primary", "fallback", "done"}
    /\ Len(enqueued) <= 1
    /\ Len(core_calls) <= 2
    /\ fetch_calls \in Nat

\* PaperSearch.__init__ (lines 85-109): a client is held only when Semantic
\* Scholar is enabled and its construction did not fail
ConfigInit ==
    /\ REQUIRE_PDF_DOWNLOAD \in BOOLEAN
    /\ ENABLE_PDF_URL_ENHANCEMENT \in BOOLEAN
    /\ TRUSTED_PDF_SOURCES \in AllowLists
    /\ SEARCH_SOURCE \in Sources
    /\ ENABLE_SEMANTIC_SCHOLAR \in BOOLEAN
    /\ s2_client \in (IF ENABLE_SEMANTIC_SCHOLAR THEN BOOLEAN ELSE {FALSE})

CallInit ==
    /\ pc = "idle"
    /\ max_results = 0
    /\ source_arg = "None"
    /\ source = "None"
    /\ all_papers = <<>>
    /\ idx = 0
    /\ paper_results = <<>>
    /\ additional_papers = <<>>
    /\ papers_processed = 0
    /\ results = <<>>
    /\ fetch_calls = 0
    /\ called_provider = "none"
    /\ initial_limit = 0
    /\ examined_first = 0
    /\ escaped = FALSE
    /\ event = "none"

\* no later call of the resolver has been made
NO_CALL == [made |-> FALSE]

PureInit ==
    /\ pure_pc = "idle"
    /\ url_in = NoneVal
    /\ trusted_out = FALSE
    /\ paper_in = P_BARE
    /\ pdf_urls_out = <<>>
    /\ selected_out = NoneVal
    /\ again = NO_CALL

\* the calls that may run at once
Invocations == {"a", "b"}

\* the locals of a search_semantic_scholar call; overlapped tells that the
\* call took a step while another call was under way
Locals(pc_, m, batch, i, first, more, processed, res, over) ==
    [pc |-> pc_, max_results |-> m, all_papers |-> batch, idx |-> i,
     paper_results |-> first, additional_papers |-> more,
     papers_processed |-> processed, results |-> res, overlapped |-> over]

NotCalled == Locals("idle", 0, <<>>, 0, <<>>, <<>>, 0, <<>>, FALSE)

\* the query of the request has not been analyzed
NO_ANALYSIS == [kind |-> "none"]

\* PaperSearchAgent.__init__ (agent_executor.py:35-51)
AgentInit ==
    /\ USE_FALLBACK_ON_LLM_ERROR \in BOOLEAN
    /\ max_search_results \in 1..MaxResults
    /\ a_pc = "idle"
    /\ combined_text = <<>>
    /\ llm_result = NO_ANALYSIS
    /\ analysis = NO_ANALYSIS
    /\ core_calls = <<>>
    /\ search_results = <<>>
    /\ a_error = <<>>
    /\ enqueued = <<>>

\* an aggregator used on its own, one call at a time: the agent around it is
\* left out by fixing its two settings
NoAgent ==
    /\ AgentInit
    /\ ~USE_FALLBACK_ON_LLM_ERROR
    /\ max_search_results = 1
    /\ inv = [i \in Invocations |-> NotCalled]

Init == ConfigInit /\ CallInit /\ PureInit /\ NoAgent

\* the call is over: results is what search_papers returns
Finish(res, ev) ==
    /\ pc' = "done"
    /\ results' = res
    /\ event' = ev

\* a mutated resolution: the source argument is ignored
effective_source_config_only(src) == SEARCH_SOURCE

\* lines 407-408
effective_source(src) == IF src = "None" THEN SEARCH_SOURCE ELSE src

\* search_papers(query, m, src), lines 407-432, up to the provider call
search_papers_call(m, src) ==
    LET s == effective_source(src)
    IN /\ max_results' = m
       /\ source_arg' = src
       /\ source' = s
       /\ all_papers' = <<>>
       /\ idx' = 0
       /\ paper_results' = <<>>
       /\ additional_papers' = <<>>
       /\ papers_processed' = 0
       /\ fetch_calls' = 0
       /\ called_provider' = "none"
       /\ initial_limit' = 0
       /\ examined_first' = 0
       /\ escaped' = FALSE
       /\ IF s = "arxiv"
          THEN pc' = "arxiv_fetch" /\ results' = <<>> /\ event' = "none"
          ELSE IF s = "semantic_scholar" /\ ENABLE_SEMANTIC_SCHOLAR
          THEN IF ~s2_client
               THEN Finish(<<>>, "no_client")
               ELSE pc' = "s2_fetch" /\ results' = <<>> /\ event' = "none"
          ELSE Finish(<<>>, "invalid_source")

\* a caller of PaperSearch asks for a search
search_papers ==
    /\ pc \in {"idle", "done"}
    /\ \E m \in 1..MaxResults, src \in SourceArgs : search_papers_call(m, src)
    /\ UNCHANGED <<config_vars, other_vars>>

\* search_semantic_scholar, lines 531-556: the one search_paper call
s2_limit == IF REQUIRE_PDF_DOWNLOAD THEN max_results * 10 ELSE max_results

S2Fetch ==
    /\ pc = "s2_fetch"
    /\ called_provider' = "semantic_scholar"
    /\ fetch_calls' = fetch_calls + 1
    /\ initial_limit' = s2_limit
    /\ \E batch \in S2Batches :
        /\ all_papers' = batch
        /\ IF batch = <<>>
           THEN Finish(<<>>, "no_items") /\ idx' = idx
           ELSE pc' = "first_pass" /\ idx' = 1 /\ UNCHANGED <<results, event>>
    /\ UNCHANGED <<max_results, source_arg, source, paper_results, additional_papers,
                   papers_processed, examined_first, escaped>>
    /\ UNCHANGED <<config_vars, other_vars>>

\* the provider call raises: caught at line 603
S2FetchRaises ==
    /\ pc = "s2_fetch"
    /\ called_provider' = "semantic_scholar"
    /\ fetch_calls' = fetch_calls + 1
    /\ initial_limit' = s2_limit
    /\ Finish(<<>>, "provider_raised")
    /\ UNCHANGED <<max_results, source_arg, source, all_papers, idx, paper_results,
                   additional_papers, papers_processed, examined_first, escaped>>
    /\ UNCHANGED <<config_vars, other_vars>>

\* one iteration of the loop of lines 561-573 over all_papers
FirstPassStep ==
    /\ pc = "first_pass"
    /\ idx <= Len(all_papers)
    /\ Len(paper_results) < max_results
    /\ examined_first' = examined_first + 1
    /\ idx' = idx + 1
    /\ LET out == process_semantic_scholar_paper(all_papers[idx])
       IN IF out.kind = "raise"
          THEN \* caught at line 603: the call returns []
               Finish(<<>>, "map_raised") /\ UNCHANGED paper_results
          ELSE /\ paper_results' = IF out.kind = "result"
                                   THEN Append(paper_results, At(out.rec, idx))
                                   ELSE paper_results
               /\ UNCHANGED <<pc, results, event>>
    /\ UNCHANGED <<max_results, source_arg, source, all_papers, additional_papers,
                   papers_processed, fetch_calls, initial_limit, escaped, called_provider>>
    /\ UNCHANGED <<config_vars, other_vars>>

\* a mutated loop exit: the backup scan starts by asking the provider again
FirstPassEnd_refetch ==
    /\ pc = "first_pass"
    /\ idx > Len(all_papers) \/ Len(paper_results) >= max_results
    /\ IF REQUIRE_PDF_DOWNLOAD /\ Len(paper_results) < max_results
          /\ Len(all_papers) > Len(paper_results)
       THEN /\ fetch_calls' = fetch_calls + 1
            /\ pc' = "backup" /\ idx' = max_results + 1
            /\ UNCHANGED <<results, event>>
       ELSE Finish(paper_results, "returned") /\ UNCHANGED <<idx, fetch_calls>>
    /\ UNCHANGED <<max_results, source_arg, source, all_papers, paper_results,
                   additional_papers, papers_processed, initial_limit,
                   examined_first, escaped, called_provider>>
    /\ UNCHANGED <<config_vars, other_vars>>

\* the loop of lines 561-573 is left; lines 575-601 and, when the backup scan
\* is entered, lines 337-357 of _fetch_additional_papers
FirstPassEnd ==
    /\ pc = "first_pass"
    /\ idx > Len(all_papers) \/ Len(paper_results) >= max_results
    /\ IF REQUIRE_PDF_DOWNLOAD /\ Len(paper_results) < max_results
          /\ Len(all_papers) > Len(paper_results)
       THEN IF Len(all_papers) > max_results
            THEN \* remaining_papers = processed_papers[max_results:]
                 /\ pc' = "backup" /\ idx' = max_results + 1
                 /\ UNCHANGED <<results, event>>
            ELSE \* no remaining papers: additional_papers stays empty
                 Finish(paper_results, "returned") /\ UNCHANGED idx
       ELSE Finish(paper_results, "returned") /\ UNCHANGED idx
    /\ UNCHANGED <<max_results, source_arg, source, all_papers, paper_results,
                   additional_papers, papers_processed, fetch_calls, initial_limit,
                   examined_first, escaped, called_provider>>
    /\ UNCHANGED <<config_vars, other_vars>>

\* papers_needed, line 338
papers_needed == max_results - Len(paper_results)

\* a mutated scan: the limit of lines 372-376 is not applied
backup_limit_reached_never == FALSE

\* lines 372-376
backup_limit_reached == papers_processed >= MAX_TOTAL_PAPERS_TO_PROCESS

\* a mutated scan: after an item it drops, the loop starts over at the first
\* remaining item, uncounted
BackupStep_starts_over ==
    /\ pc = "backup"
    /\ idx <= Len(all_papers)
    /\ Len(additional_papers) < papers_needed
    /\ ~backup_limit_reached
    /\ LET out == process_semantic_scholar_paper(all_papers[idx])
       IN IF out.kind = "raise"
          THEN /\ Finish(paper_results, "backup_raised")
               /\ UNCHANGED <<additional_papers, idx, papers_processed>>
          ELSE IF out.kind = "result"
          THEN /\ additional_papers' = Append(additional_papers, At(out.rec, idx))
               /\ idx' = idx + 1
               /\ papers_processed' = papers_processed + 1
               /\ UNCHANGED <<pc, results, event>>
          ELSE /\ idx' = max_results + 1
               /\ UNCHANGED <<additional_papers, papers_processed, pc, results, event>>
    /\ UNCHANGED <<max_results, source_arg, source, all_papers, paper_results,
                   fetch_calls, initial_limit, examined_first, escaped, called_provider>>
    /\ UNCHANGED <<config_vars, other_vars>>

\* one iteration of the loop of lines 360-376 over remaining_papers
BackupStep ==
    /\ pc = "backup"
    /\ idx <= Len(all_papers)
    /\ Len(additional_papers) < papers_needed
    /\ ~backup_limit_reached
    /\ papers_processed' = papers_processed + 1
    /\ idx' = idx + 1
    /\ LET out == process_semantic_scholar_paper(all_papers[idx])
       IN IF out.kind = "raise"
          THEN \* caught at line 598: paper_results is returned as it is
               Finish(paper_results, "backup_raised") /\ UNCHANGED additional_papers
          ELSE /\ additional_papers' = IF out.kind = "result"
                                       THEN Append(additional_papers, At(out.rec, idx))
                                       ELSE additional_papers
               /\ UNCHANGED <<pc, results, event>>
    /\ UNCHANGED <<max_results, source_arg, source, all_papers, paper_results,
                   fetch_calls, initial_limit, examined_first, escaped, called_provider>>
    /\ UNCHANGED <<config_vars, other_vars>>

\* a mutated handler: what the interrupted scan had collected is returned too
BackupRaises_keeps_collected ==
    /\ pc = "backup"
    /\ Finish(paper_results \o additional_papers, "backup_raised")
    /\ UNCHANGED <<max_results, source_arg, source, all_papers, idx, paper_results,
                   additional_papers, papers_processed, fetch_calls, initial_limit,
                   examined_first, escaped, called_provider>>
    /\ UNCHANGED <<config_vars, other_vars>>

\* an exception is raised inside _fetch_additional_papers, at whichever
\* statement of lines 337-388: it leaves the call before line 593 extends
\* paper_results, is caught at line 598, and line 601 returns paper_results.
\* The mapping is not what raises here: each item the scan reads has been
\* mapped by the first pass, which ends the search when the mapping raises.
BackupRaises ==
    /\ pc = "backup"
    /\ Finish(paper_results, "backup_raised")
    /\ UNCHANGED <<max_results, source_arg, source, all_papers, idx, paper_results,
                   additional_papers, papers_processed, fetch_calls, initial_limit,
                   examined_first, escaped, called_provider>>
    /\ UNCHANGED <<config_vars, other_vars>>

\* the loop is left; lines 378-388 and 593-601
BackupEnd ==
    /\ pc = "backup"
    /\ \/ idx > Len(all_papers)
       \/ Len(additional_papers) >= papers_needed
       \/ backup_limit_reached
    /\ Finish(paper_results \o additional_papers, "returned")
    /\ UNCHANGED <<max_results, source_arg, source, all_papers, idx, paper_results,
                   additional_papers, papers_processed, fetch_calls, initial_limit,
                   examined_first, escaped, called_provider>>
    /\ UNCHANGED <<config_vars, other_vars>>

\* search_arxiv, lines 457-470: the one query to arXiv
ArxivFetch ==
    /\ pc = "arxiv_fetch"
    /\ called_provider' = "arxiv"
    /\ fetch_calls' = fetch_calls + 1
    /\ initial_limit' = max_results
    /\ \E batch \in ArxivBatches(max_results) : all_papers' = batch
    /\ pc' = "arxiv_loop"
    /\ idx' = 1
    /\ UNCHANGED <<max_results, source_arg, source, paper_results, additional_papers,
                   papers_processed, results, examined_first, escaped, event>>
    /\ UNCHANGED <<config_vars, other_vars>>

\* a mutated handler: the exception is not caught and leaves search_papers
ArxivRaises_uncaught ==
    /\ pc \in {"arxiv_fetch", "arxiv_loop"}
    /\ escaped' = TRUE
    /\ Finish(paper_results, "provider_raised")
    /\ called_provider' = (IF pc = "arxiv_fetch" THEN "arxiv" ELSE called_provider)
    /\ fetch_calls' = IF pc = "arxiv_fetch" THEN fetch_calls + 1 ELSE fetch_calls
    /\ initial_limit' = IF pc = "arxiv_fetch" THEN max_results ELSE initial_limit
    /\ UNCHANGED <<max_results, source_arg, source, all_papers, idx, paper_results,
                   additional_papers, papers_processed, examined_first>>
    /\ UNCHANGED <<config_vars, other_vars>>

\* the arXiv client raises, at the query or while results are drawn from it:
\* caught at line 421, results stays []
ArxivRaises ==
    /\ pc \in {"arxiv_fetch", "arxiv_loop"}
    /\ Finish(<<>>, "provider_raised")
    /\ called_provider' = (IF pc = "arxiv_fetch" THEN "arxiv" ELSE called_provider)
    /\ fetch_calls' = IF pc = "arxiv_fetch" THEN fetch_calls + 1 ELSE fetch_calls
    /\ initial_limit' = IF pc = "arxiv_fetch" THEN max_results ELSE initial_limit
    /\ UNCHANGED <<max_results, source_arg, source, all_papers, idx, paper_results,
                   additional_papers, papers_processed, examined_first, escaped>>
    /\ UNCHANGED <<config_vars, other_vars>>

\* lines 474-485
arxiv_result(result) == Result(<<"arXiv title">>, result.pdf_url, "arxiv", SCORE_SCALE)

\* lines 487-502
arxiv_accepts(paper_result) ==
    IF REQUIRE_PDF_DOWNLOAD
    THEN Truthy(paper_result.pdf_url) /\ is_trusted_pdf_url(paper_result.pdf_url)
    ELSE TRUE

\* one iteration of the loop of lines 470-502
ArxivStep ==
    /\ pc = "arxiv_loop"
    /\ idx <= Len(all_papers)
    /\ idx' = idx + 1
    /\ examined_first' = examined_first + 1
    /\ LET paper_result == arxiv_result(all_papers[idx])
       IN paper_results' = IF arxiv_accepts(paper_result)
                           THEN Append(paper_results, At(paper_result, idx))
                           ELSE paper_results
    /\ UNCHANGED <<pc, max_results, source_arg, source, all_papers, additional_papers,
                   papers_processed, results, fetch_calls, initial_limit, escaped, event, called_provider>>
    /\ UNCHANGED <<config_vars, other_vars>>

\* lines 504-507 and 419-420
ArxivEnd ==
    /\ pc = "arxiv_loop"
    /\ idx > Len(all_papers)
    /\ Finish(paper_results, IF all_papers = <<>> THEN "no_items" ELSE "returned")
    /\ UNCHANGED <<max_results, source_arg, source, all_papers, idx, paper_results,
                   additional_papers, papers_processed, fetch_calls, initial_limit,
                   examined_first, escaped, called_provider>>
    /\ UNCHANGED <<config_vars, other_vars>>

Next ==
    \/ search_papers
    \/ S2Fetch
    \/ S2FetchRaises
    \/ FirstPassStep
    \/ FirstPassEnd
    \/ BackupStep
    \/ BackupRaises
    \/ BackupEnd
    \/ ArxivFetch
    \/ ArxivRaises
    \/ ArxivStep
    \/ ArxivEnd

Spec == Init /\ [][Next]_vars

\* a step of a search under way: the interpreter runs the call on, and the
\* provider answers the one request made of it (by a batch or by an error).
\* An exception inside the backup scan may happen and is not a step that must
\* happen.
SearchStep ==
    \/ S2Fetch
    \/ S2FetchRaises
    \/ FirstPassStep
    \/ FirstPassEnd
    \/ BackupStep
    \/ BackupEnd
    \/ ArxivFetch
    \/ ArxivRaises
    \/ ArxivStep
    \/ ArxivEnd

\* the aggregator with a client held, under one allow-list, mapping through
\* the resolver: the batches still hold items with a trusted link, items
\* without one and items the mapping raises on, in every order
InitLive ==
    /\ Init
    /\ ENABLE_PDF_URL_ENHANCEMENT
    /\ TRUSTED_PDF_SOURCES = << <<"arxiv.org">>, <<"biorxiv.org">> >>
    /\ s2_client
    /\ SEARCH_SOURCE = "arxiv"

SpecLive == InitLive /\ [][Next]_vars /\ WF_vars(SearchStep)

----------------------------------------------------------------------------
(* The two pure functions applied to inputs drawn from bounded sets *)

Urls ==
    { NoneVal, <<>>, ARXIV_URL, PUBLISHER_URL, UPPER_URL, REDIRECT_URL, BIORXIV_URL,
      SPLIT_URL,
      <<"https://", "www.", "nature.com", "/articles/", "s41586-020-0000-0", ".pdf">>,
      <<"https://", "www.", "NATURE.COM", "/articles/", "s41586-020-0000-0", ".pdf">>,
      <<"https://", "pubmed.", "ncbi.nlm.nih.gov", "/", "123", "/">>,
      <<"arxiv.org">>, <<"/pdf", "arxiv.org">> }

OpenAccessValues == {OA_NONE, OA_NO_URL, OA(NoneVal), OA(<<>>), OA(ARXIV_URL), OA(PUBLISHER_URL)}

DoiValues == {Missing, DOI_NATURE, DOI_BIORXIV, DOI_SCIENCE, DOI_IEEE, DOI_ACM,
              DOI_ARXIV, DOI_OTHER, DOI_NATURE_MIXED}

RawPapers ==
    { Paper(<<"T">>, oa, Ids(a, pm, pmid, pmc, doi), 0) :
        oa \in OpenAccessValues,
        a \in {Missing, <<"2101.00001">>},
        pm \in {Missing, <<"123">>},
        pmid \in {Missing, <<"123">>},
        pmc \in {Missing, <<>>, <<"7000001">>},
        doi \in DoiValues }

\* a call of _is_trusted_pdf_url on url_in
CallIsTrusted ==
    /\ pure_pc = "called"
    /\ trusted_out' = is_trusted_pdf_url(url_in)
    /\ pure_pc' = "returned"
    /\ UNCHANGED <<url_in, paper_in, pdf_urls_out, selected_out, again>>
    /\ UNCHANGED <<config_vars, call_vars, agent_vars, inv>>

InitTrust ==
    /\ ConfigInit /\ CallInit /\ NoAgent
    /\ pure_pc = "called"
    /\ url_in \in Urls
    /\ trusted_out = FALSE
    /\ paper_in = P_BARE
    /\ pdf_urls_out = <<>>
    /\ selected_out = NoneVal
    /\ again = NO_CALL

SpecTrust == InitTrust /\ [][CallIsTrusted]_vars

\* a call of _extract_enhanced_pdf_urls on paper_in: pdf_urls_out is the
\* local pdf_urls at line 235, selected_out the value returned
CallExtract ==
    /\ pure_pc = "called"
    /\ pdf_urls_out' = candidate_pdf_urls(paper_in)
    /\ selected_out' = extract_enhanced_pdf_urls(paper_in)
    /\ pure_pc' = "returned"
    /\ UNCHANGED <<url_in, trusted_out, paper_in, again>>
    /\ UNCHANGED <<config_vars, call_vars, agent_vars, inv>>

InitResolver ==
    /\ ConfigInit /\ CallInit /\ NoAgent
    /\ pure_pc = "called"
    /\ url_in = NoneVal
    /\ trusted_out = FALSE
    /\ paper_in \in RawPapers
    /\ pdf_urls_out = <<>>
    /\ selected_out = NoneVal
    /\ again = NO_CALL

SpecResolver == InitResolver /\ [][CallExtract]_vars

----------------------------------------------------------------------------
(* The resolver called twice, with searches in between *)

\* the raw papers the two calls are made on: papers the searches in between
\* resolve as well
RepeatPapers == {P_OPEN, P_ARXIV, P_NATURE}

\* what a call of _extract_enhanced_pdf_urls on paper leaves: pdf_urls at line
\* 235 and the value returned; searched tells that a search has ended before it
CallRecord(paper) ==
    [made |-> TRUE, paper |-> paper,
     pdf_urls |-> candidate_pdf_urls(paper),
     selected |-> extract_enhanced_pdf_urls(paper),
     searched |-> pc = "done"]

\* the later call, made between two searches
CallExtractAgain ==
    /\ pure_pc = "returned"
    /\ again = NO_CALL
    /\ pc \in {"idle", "done"}
    /\ \E paper \in RepeatPapers : again' = CallRecord(paper)
    /\ UNCHANGED <<pure_pc, url_in, trusted_out, paper_in, pdf_urls_out, selected_out>>
    /\ UNCHANGED <<config_vars, call_vars, agent_vars, inv>>

\* the steps of the searches run between the two calls
SearchBetweenCalls ==
    /\ pure_pc = "returned"
    /\ again = NO_CALL
    /\ Next

\* an aggregator that holds a client and maps through the resolver (line 281)
InitRepeat ==
    /\ ConfigInit /\ CallInit /\ NoAgent
    /\ ENABLE_PDF_URL_ENHANCEMENT
    /\ s2_client
    /\ SEARCH_SOURCE = "semantic_scholar"
    /\ pure_pc = "called"
    /\ url_in = NoneVal
    /\ trusted_out = FALSE
    /\ paper_in \in RepeatPapers
    /\ pdf_urls_out = <<>>
    /\ selected_out = NoneVal
    /\ again = NO_CALL

NextRepeat ==
    \/ CallExtract
    \/ SearchBetweenCalls
    \/ CallExtractAgain

SpecRepeat == InitRepeat /\ [][NextRepeat]_vars

----------------------------------------------------------------------------
(* The agent: PaperSearchAgentExecutor.execute, PaperSearchAgent.handle_search *)
(* and QueryAnalyzer.analyze_query (agent_executor.py, query_analyzer.py)    *)

\* s.lstrip() and s.rstrip(): the token " " is the only whitespace
RECURSIVE LStrip(_)
LStrip(s) == IF s # <<>> /\ Head(s) = " " THEN LStrip(Tail(s)) ELSE s

RECURSIVE RStrip(_)
RStrip(s) == IF s # <<>> /\ s[Len(s)] = " " THEN RStrip(SubSeq(s, 1, Len(s) - 1)) ELSE s

\* s.strip()
Strip(s) == RStrip(LStrip(s))

\* sep.join(strs)
RECURSIVE Join(_, _)
Join(strs, sep) ==
    IF strs = <<>> THEN <<>>
    ELSE IF Len(strs) = 1 THEN strs[1]
    ELSE strs[1] \o sep \o Join(Tail(strs), sep)

QUERY_TEXT == <<"attention">>
\* the text of one text part
PartTexts == {<<>>, QUERY_TEXT}
\* text_content of execute, lines 147-155: the texts of the text parts of a
\* message with no part, one part or two parts
MessageParts ==
    {<<>>} \cup {<<t>> : t \in PartTexts}
           \cup {<<<<>>, <<>>>>, <<QUERY_TEXT, <<>>>>}

\* the literals of agent_executor.py, each one token
WELCOME_MESSAGE == <<"Welcome to the Paper Search Agent! ...">>
CLARIFICATION_MESSAGE == <<"Your query seems unclear or incomplete. ...">>
NO_PAPERS_MESSAGE == <<"No papers found matching your query. Please try a different search term.">>
ERROR_PREFIX == <<"An error occurred while processing your request: ">>

\* what _call_llm_for_analysis does: it returns a dict with the keys that
\* analyze_query reads, or it raises (a dict that lacks one of the keys makes
\* line 77, 78 or 80 raise KeyError, inside the same try)
LlmDict(is_valid, search_query, keywords) ==
    [kind |-> "dict", is_valid |-> is_valid, search_query |-> search_query,
     keywords |-> keywords, message |-> <<"not a paper search">>]

LlmRaises == [kind |-> "raise", is_valid |-> FALSE, search_query |-> <<>>,
              keywords |-> <<>>, message |-> <<"LLM API call failed: ...">>]

TRANSLATED_QUERY == <<"attention", " ", "mechanism">>

\* keywords: a list of strings; the empty list also stands for None
LlmOutcomes(query) ==
    { LlmRaises,
      LlmDict(FALSE, <<>>, <<>>),
      LlmDict(TRUE, query, <<query>>),
      LlmDict(TRUE, TRANSLATED_QUERY, <<QUERY_TEXT, <<"mechanism">>>>),
      LlmDict(TRUE, TRANSLATED_QUERY, <<>>) }

\* what analyze_query ends with: the tuple returned, or the ValueError raised
AnalysisReturn(is_valid, search_query, keywords) ==
    [kind |-> "return", is_valid |-> is_valid, search_query |-> search_query,
     keywords |-> keywords, text |-> <<>>]

AnalysisRaise(text) ==
    [kind |-> "raise", is_valid |-> FALSE, search_query |-> <<>>, keywords |-> <<>>,
     text |-> text]

\* a mutated handler of line 82: it falls back whatever the setting is
on_llm_error_always_fallback(query, llm) == AnalysisReturn(TRUE, query, <<query>>)

\* query_analyzer.py:82-99
on_llm_error(query, llm) ==
    IF USE_FALLBACK_ON_LLM_ERROR
    THEN AnalysisReturn(TRUE, query, <<query>>)
    ELSE AnalysisRaise(<<"LLM query analysis failed: ">> \o llm.message
                       \o <<". Please check your LLM API configuration.">>)

\* QueryAnalyzer.analyze_query, query_analyzer.py:70-99
analyze_query(query, llm) ==
    IF Strip(query) = <<>> THEN AnalysisReturn(FALSE, <<"Empty query">>, <<>>)
    ELSE IF llm.kind = "dict"
         THEN IF ~llm.is_valid
              THEN AnalysisReturn(FALSE, llm.message, <<>>)
              ELSE AnalysisReturn(TRUE, llm.search_query, llm.keywords)
         ELSE on_llm_error(query, llm)

\* a mutated test: no analysis is taken for unclear
query_is_unclear_never(a) == FALSE

\* agent_executor.py:86
query_is_unclear(a) == ~a.is_valid

\* agent_executor.py:94
keywords_string(keywords) == IF keywords # <<>> THEN Join(keywords, <<", ">>) ELSE <<>>

\* a search asked of PaperSearch
CoreCall(query, m) == [query |-> query, max_results |-> m]

\* OutputFormatter._format_search_results_markdown: a header, an entry for
\* each result, a closing line
RECURSIVE format_entries(_)
format_entries(list) ==
    IF list = <<>> THEN <<>>
    ELSE <<"## ">> \o list[1].rec.title \o <<"**Source**: ", list[1].rec.source>>
         \o format_entries(Tail(list))

\* output_formatter.py:29-35
format_search_results(list) ==
    IF list = <<>> THEN <<"No papers found matching your query.">>
    ELSE <<"# Search Results">> \o format_entries(list)
         \o <<"Here are the papers that match your search query.">>

\* a mutated reply: an empty list is reported with the event that ended the search
handle_search_reply_tells_event(list) ==
    IF list = <<>> THEN ERROR_PREFIX \o <<event>>
    ELSE format_search_results(list)

\* agent_executor.py:107-117, what handle_search returns for its list
handle_search_reply(list) ==
    IF list = <<>> THEN NO_PAPERS_MESSAGE
    ELSE format_search_results(list)

\* a mutated ending: after the message an error message is enqueued as well
Send_then_error(message) ==
    /\ enqueued' = Append(Append(enqueued, message), ERROR_PREFIX)
    /\ a_pc' = "done"

\* execute, lines 171-178: the response, or the error message, is enqueued
\* and the call is over
Send(message) ==
    /\ enqueued' = Append(enqueued, message)
    /\ a_pc' = "done"

\* execute, lines 140-170, up to the call of handle_search
Execute ==
    /\ a_pc \in {"idle", "done"}
    /\ pc \in {"idle", "done"}
    /\ \E text_content \in MessageParts :
        /\ combined_text' = (IF text_content # <<>> THEN Join(text_content, <<" ">>) ELSE <<>>)
        /\ IF combined_text' # <<>>
           THEN a_pc' = "analyze" /\ enqueued' = <<>>
           ELSE a_pc' = "done" /\ enqueued' = <<WELCOME_MESSAGE>>
    /\ llm_result' = NO_ANALYSIS
    /\ analysis' = NO_ANALYSIS
    /\ core_calls' = <<>>
    /\ search_results' = <<>>
    /\ a_error' = <<>>
    /\ UNCHANGED <<USE_FALLBACK_ON_LLM_ERROR, max_search_results>>
    /\ UNCHANGED <<config_vars, call_vars, pure_vars, inv>>

\* handle_search, lines 82-97: the query is analyzed and, when it is clear,
\* the primary search is asked of PaperSearch; a ValueError of analyze_query
\* reaches line 175 of execute
AnalyzeQuery ==
    /\ a_pc = "analyze"
    /\ \E llm \in LlmOutcomes(combined_text) :
        LET a == analyze_query(combined_text, llm)
        IN /\ analysis' = a
           /\ llm_result' = (IF Strip(combined_text) = <<>> THEN NO_ANALYSIS ELSE llm)
           /\ IF a.kind = "raise"
              THEN /\ a_error' = a.text
                   /\ Send(ERROR_PREFIX \o a.text)
                   /\ UNCHANGED <<core_calls, call_vars>>
              ELSE IF query_is_unclear(a)
              THEN /\ Send(CLARIFICATION_MESSAGE)
                   /\ UNCHANGED <<a_error, core_calls, call_vars>>
              ELSE /\ search_papers_call(max_search_results, "None")
                   /\ core_calls' = Append(core_calls,
                          CoreCall(keywords_string(a.keywords), max_search_results))
                   /\ a_pc' = "primary"
                   /\ UNCHANGED <<a_error, enqueued>>
    /\ UNCHANGED <<USE_FALLBACK_ON_LLM_ERROR, max_search_results, combined_text,
                   search_results>>
    /\ UNCHANGED <<config_vars, pure_vars, inv>>

\* handle_search, lines 95-117: the primary search has returned
PrimarySearchDone ==
    /\ a_pc = "primary"
    /\ pc = "done"
    /\ IF escaped
       THEN /\ a_error' = <<event>>
            /\ Send(ERROR_PREFIX \o <<event>>)
            /\ UNCHANGED <<search_results, core_calls, call_vars>>
       ELSE IF results = <<>> /\ analysis.search_query # combined_text
       THEN /\ search_papers_call(DEFAULT_MAX_RESULTS, "None")
            /\ core_calls' = Append(core_calls, CoreCall(combined_text, DEFAULT_MAX_RESULTS))
            /\ a_pc' = "fallback"
            /\ UNCHANGED <<search_results, a_error, enqueued>>
       ELSE /\ search_results' = results
            /\ Send(handle_search_reply(results))
            /\ UNCHANGED <<a_error, core_calls, call_vars>>
    /\ UNCHANGED <<USE_FALLBACK_ON_LLM_ERROR, max_search_results, combined_text,
                   llm_result, analysis>>
    /\ UNCHANGED <<config_vars, pure_vars, inv>>

\* handle_search, lines 105-117: the search on the original text has returned
FallbackSearchDone ==
    /\ a_pc = "fallback"
    /\ pc = "done"
    /\ IF escaped
       THEN /\ a_error' = <<event>>
            /\ Send(ERROR_PREFIX \o <<event>>)
            /\ UNCHANGED search_results
       ELSE /\ search_results' = results
            /\ Send(handle_search_reply(results))
            /\ UNCHANGED a_error
    /\ UNCHANGED <<USE_FALLBACK_ON_LLM_ERROR, max_search_results, combined_text,
                   llm_result, analysis, core_calls>>
    /\ UNCHANGED <<config_vars, call_vars, pure_vars, inv>>

\* the agent over an aggregator that maps through the resolver under one
\* allow-list: what a request is answered with depends on the aggregator
\* only through the list a search returns
InitAgent ==
    /\ ConfigInit /\ CallInit /\ PureInit /\ AgentInit
    /\ inv = [i \in Invocations |-> NotCalled]
    /\ ENABLE_PDF_URL_ENHANCEMENT
    /\ TRUSTED_PDF_SOURCES = << <<"arxiv.org">>, <<"biorxiv.org">> >>

NextAgent ==
    \/ Execute
    \/ AnalyzeQuery
    \/ PrimarySearchDone
    \/ FallbackSearchDone
    \/ S2Fetch
    \/ S2FetchRaises
    \/ FirstPassStep
    \/ FirstPassEnd
    \/ BackupStep
    \/ BackupRaises
    \/ BackupEnd
    \/ ArxivFetch
    \/ ArxivRaises
    \/ ArxivStep
    \/ ArxivEnd

SpecAgent == InitAgent /\ [][NextAgent]_vars

----------------------------------------------------------------------------
(* search_semantic_scholar calls on one PaperSearch object, their steps     *)
(* interleaved (paper_search.py:509-605 and 320-388)                        *)

\* the raw papers of the batches of these calls
ConcurrentItems == {P_OPEN, P_BARE}
ConcurrentBatches == SeqsUpTo(ConcurrentItems, MaxBatch)

\* another call is between its first and its last step
OtherUnderWay(i) ==
    \E j \in Invocations \ {i} : inv[j].pc \notin {"idle", "done"}

\* call i takes a step that leaves its locals as c
InvStep(i, c) ==
    inv' = [inv EXCEPT ![i] = [c EXCEPT !.overlapped = @ \/ OtherUnderWay(i)]]

\* a mutated append: paper_results is one list, kept on the object
collect_on_self(i, rec) ==
    /\ inv' = [j \in Invocations |->
                 [inv[j] EXCEPT !.paper_results = Append(@, rec),
                                !.idx = IF j = i THEN @ + 1 ELSE @]]

\* line 567: paper_results.append(paper_result), and the loop moves on
collect(i, rec) ==
    InvStep(i, [inv[i] EXCEPT !.paper_results = Append(@, rec), !.idx = @ + 1])

\* lines 522-531: the call is entered with a client held
InvStart(i) ==
    /\ inv[i].pc \in {"idle", "done"}
    /\ s2_client
    /\ \E m \in 1..MaxResults :
        InvStep(i, Locals("s2_fetch", m, <<>>, 0, <<>>, <<>>, 0, <<>>, FALSE))
    /\ UNCHANGED <<config_vars, call_vars, pure_vars, agent_vars>>

\* lines 534-558: search_paper returns, or raises (line 603)
InvFetch(i) ==
    /\ inv[i].pc = "s2_fetch"
    /\ \/ \E batch \in ConcurrentBatches :
            IF batch = <<>>
            THEN InvStep(i, [inv[i] EXCEPT !.pc = "done", !.results = <<>>])
            ELSE InvStep(i, [inv[i] EXCEPT !.pc = "first_pass", !.all_papers = batch,
                                           !.idx = 1])
       \/ InvStep(i, [inv[i] EXCEPT !.pc = "done", !.results = <<>>])
    /\ UNCHANGED <<config_vars, call_vars, pure_vars, agent_vars>>

\* one iteration of the loop of lines 561-573
InvFirstPassStep(i) ==
    /\ inv[i].pc = "first_pass"
    /\ inv[i].idx <= Len(inv[i].all_papers)
    /\ Len(inv[i].paper_results) < inv[i].max_results
    /\ LET out == process_semantic_scholar_paper(inv[i].all_papers[inv[i].idx])
       IN IF out.kind = "raise"
          THEN InvStep(i, [inv[i] EXCEPT !.pc = "done", !.results = <<>>])
          ELSE IF out.kind = "result"
          THEN collect(i, At(out.rec, inv[i].idx))
          ELSE InvStep(i, [inv[i] EXCEPT !.idx = @ + 1])
    /\ UNCHANGED <<config_vars, call_vars, pure_vars, agent_vars>>

\* lines 575-601 and 337-357
InvFirstPassEnd(i) ==
    /\ inv[i].pc = "first_pass"
    /\ \/ inv[i].idx > Len(inv[i].all_papers)
       \/ Len(inv[i].paper_results) >= inv[i].max_results
    /\ IF /\ REQUIRE_PDF_DOWNLOAD
          /\ Len(inv[i].paper_results) < inv[i].max_results
          /\ Len(inv[i].all_papers) > Len(inv[i].paper_results)
          /\ Len(inv[i].all_papers) > inv[i].max_results
       THEN InvStep(i, [inv[i] EXCEPT !.pc = "backup", !.idx = inv[i].max_results + 1])
       ELSE InvStep(i, [inv[i] EXCEPT !.pc = "done", !.results = inv[i].paper_results])
    /\ UNCHANGED <<config_vars, call_vars, pure_vars, agent_vars>>

\* one iteration of the loop of lines 360-376
InvBackupStep(i) ==
    /\ inv[i].pc = "backup"
    /\ inv[i].idx <= Len(inv[i].all_papers)
    /\ Len(inv[i].additional_papers) < inv[i].max_results - Len(inv[i].paper_results)
    /\ inv[i].papers_processed < MAX_TOTAL_PAPERS_TO_PROCESS
    /\ LET out == process_semantic_scholar_paper(inv[i].all_papers[inv[i].idx])
       IN IF out.kind = "raise"
          THEN InvStep(i, [inv[i] EXCEPT !.pc = "done", !.results = inv[i].paper_results,
                                         !.papers_processed = @ + 1])
          ELSE InvStep(i, [inv[i] EXCEPT
                    !.additional_papers = IF out.kind = "result"
                                          THEN Append(@, At(out.rec, inv[i].idx)) ELSE @,
                    !.papers_processed = @ + 1,
                    !.idx = @ + 1])
    /\ UNCHANGED <<config_vars, call_vars, pure_vars, agent_vars>>

\* lines 378-388 and 593-601
InvBackupEnd(i) ==
    /\ inv[i].pc = "backup"
    /\ \/ inv[i].idx > Len(inv[i].all_papers)
       \/ Len(inv[i].additional_papers) >= inv[i].max_results - Len(inv[i].paper_results)
       \/ inv[i].papers_processed >= MAX_TOTAL_PAPERS_TO_PROCESS
    /\ InvStep(i, [inv[i] EXCEPT !.pc = "done",
                                 !.results = inv[i].paper_results \o inv[i].additional_papers])
    /\ UNCHANGED <<config_vars, call_vars, pure_vars, agent_vars>>

\* one PaperSearch object that holds a client, under one allow-list
InitConcurrent ==
    /\ ConfigInit /\ CallInit /\ PureInit /\ AgentInit
    /\ ENABLE_PDF_URL_ENHANCEMENT
    /\ TRUSTED_PDF_SOURCES = <<>>
    /\ s2_client
    /\ SEARCH_SOURCE = "semantic_scholar"
    /\ ~USE_FALLBACK_ON_LLM_ERROR
    /\ max_search_results = 1
    /\ inv = [i \in Invocations |-> NotCalled]

NextConcurrent ==
    \E i \in Invocations :
        \/ InvStart(i)
        \/ InvFetch(i)
        \/ InvFirstPassStep(i)
        \/ InvFirstPassEnd(i)
        \/ InvBackupStep(i)
        \/ InvBackupEnd(i)

SpecConcurrent == InitConcurrent /\ [][NextConcurrent]_vars

----------------------------------------------------------------------------
(* Properties *)

\* sub occurs in s as a run of consecutive tokens
IsSubstring(sub, s) ==
    \E i \in 0..Len(s), j \in 0..Len(s) : i <= j /\ SubSeq(s, i + 1, j) = sub

\* TrustPolicy as the specification states it
PolicyTrusts(url) ==
    /\ url # NoneVal
    /\ url # <<>>
    /\ \/ \E k \in DOMAIN TRUSTED_PDF_SOURCES : IsSubstring(TRUSTED_PDF_SOURCES[k], url)
       \/ IsSubstring(<<"arxiv.org", "/pdf">>, url)

\* C1: with trust-filtering enabled, every Record a search returns, from
\* either provider, has a pdfUrl that is not absent and that TrustPolicy
\* trusts.
C1_ReturnedRecordsTrusted ==
    (pc = "done" /\ REQUIRE_PDF_DOWNLOAD) =>
        \A k \in DOMAIN results :
            /\ results[k].rec.pdf_url # NoneVal
            /\ PolicyTrusts(results[k].rec.pdf_url)

\* a Semantic Scholar search under trust-filtering that dropped an item and
\* returned another
C1_Witness ==
    /\ pc = "done" /\ REQUIRE_PDF_DOWNLOAD
    /\ called_provider = "semantic_scholar"
    /\ Len(results) >= 1
    /\ Len(results) < examined_first

\* C2: one search makes at most one batch-fetch call to the provider, with
\* or without the backup scan, and the backup scan reads only items of the
\* batch that call returned.
C2_OneFetchPerSearch ==
    /\ fetch_calls <= 1
    /\ pc = "backup" => fetch_calls = 1
    /\ \A k \in DOMAIN additional_papers :
        /\ additional_papers[k].pos \in DOMAIN all_papers
        /\ process_semantic_scholar_paper(all_papers[additional_papers[k].pos])
             = Returned(additional_papers[k].rec)

\* a search whose backup scan added a Record
C2_Witness ==
    /\ pc = "done" /\ event = "returned"
    /\ Len(additional_papers) >= 1
    /\ fetch_calls = 1

\* C3 as stated: the raw items examined in one search, first pass and backup
\* scan together, number at most 200.
C3_TotalExaminedAtMost200 ==
    examined_first + papers_processed <= MAX_TOTAL_PAPERS_TO_PROCESS

\* C3 as amended: the backup scan alone examines at most 200 raw items in one
\* search; the first pass is not counted against the limit.
C3_BackupExaminedAtMost200 ==
    papers_processed <= MAX_TOTAL_PAPERS_TO_PROCESS

\* a backup scan stopped by the limit with raw items still unread
C3_Witness ==
    /\ pc = "done" /\ event = "returned"
    /\ papers_processed = MAX_TOTAL_PAPERS_TO_PROCESS
    /\ idx <= Len(all_papers)
    /\ Len(additional_papers) < papers_needed

\* C4: the Records a search returns are in descending order of score, and
\* Records of equal score are in the order of their raw items in the batch.
C4_ReturnedSortedByScore ==
    pc = "done" =>
        \A i \in DOMAIN results, j \in DOMAIN results :
            i < j =>
                \/ results[i].rec.score > results[j].rec.score
                \/ /\ results[i].rec.score = results[j].rec.score
                   /\ results[i].pos <= results[j].pos

\* the resolver derives a trusted PDF link for the raw item
HasDerivableTrustedLink(paper) == extract_enhanced_pdf_urls(paper) # NoneVal

\* how many of the first n items of the batch have a derivable trusted link
RECURSIVE CountDerivable(_, _)
CountDerivable(batch, n) ==
    IF n = 0 THEN 0
    ELSE CountDerivable(batch, n - 1)
         + (IF HasDerivableTrustedLink(batch[n]) THEN 1 ELSE 0)

\* C5: with Semantic Scholar and trust-filtering, a batch holding at least
\* max_results items with a derivable trusted link, fewer than max_results of
\* them among its first max_results items, yields exactly max_results
\* Records, each with a non-empty trusted pdfUrl.
C5_BackfillFillsResult ==
    ( /\ pc = "done"
      /\ called_provider = "semantic_scholar"
      /\ event # "provider_raised"
      /\ REQUIRE_PDF_DOWNLOAD
      /\ Len(all_papers) > max_results
      /\ CountDerivable(all_papers, Len(all_papers)) >= max_results
      /\ CountDerivable(all_papers, max_results) < max_results )
    => /\ Len(results) = max_results
       /\ \A k \in DOMAIN results :
            Truthy(results[k].rec.pdf_url) /\ PolicyTrusts(results[k].rec.pdf_url)

\* the raw item would be accepted as a Record by the provider's mapping
Qualifies(item) ==
    IF called_provider = "arxiv"
    THEN arxiv_accepts(arxiv_result(item))
    ELSE process_semantic_scholar_paper(item).kind = "result"

QualifyingPositions == {i \in DOMAIN all_papers : Qualifies(all_papers[i])}

\* C6: a search never returns more than max_results Records, whatever batch
\* the provider returned; when fewer than max_results raw items qualify it
\* returns the Records of those that do, and no exception leaves the call.
C6_AtMostMaxAndUnderfillReturned ==
    (pc = "done" /\ event # "provider_raised") =>
        /\ Len(results) <= max_results
        /\ ~escaped
        /\ Cardinality(QualifyingPositions) < max_results =>
             \A i \in QualifyingPositions : \E k \in DOMAIN results : results[k].pos = i

\* C7: no exception leaves a search for a provider problem: when the
\* provider call raises, or returns no raw items, the search returns the
\* empty sequence.
C7_ProviderFailureGivesEmpty ==
    /\ ~escaped
    /\ (pc = "done" /\ event \in {"provider_raised", "no_items"}) => results = <<>>

\* the arXiv client failed after Records had been accepted
C7_Witness ==
    /\ pc = "done" /\ event = "provider_raised"
    /\ called_provider = "arxiv"
    /\ Len(paper_results) >= 1
    /\ results = <<>>

\* the source cannot be searched: unknown, or Semantic Scholar while it is
\* disabled or holds no client
Unsearchable(src) ==
    \/ src \notin {"arxiv", "semantic_scholar"}
    \/ src = "semantic_scholar" /\ (~ENABLE_SEMANTIC_SCHOLAR \/ ~s2_client)

\* C8: a search goes to the source argument when one is given and to the
\* configured default otherwise; for a source that is unknown or disabled it
\* returns the empty sequence and calls no provider.
C8_SourceResolution ==
    pc # "idle" =>
        LET wanted == IF source_arg = "None" THEN SEARCH_SOURCE ELSE source_arg
        IN /\ called_provider \in {"none", wanted}
           /\ pc \in {"s2_fetch", "first_pass", "backup"} => wanted = "semantic_scholar"
           /\ pc \in {"arxiv_fetch", "arxiv_loop"} => wanted = "arxiv"
           /\ Unsearchable(wanted) =>
                /\ pc = "done"
                /\ results = <<>>
                /\ fetch_calls = 0
                /\ called_provider = "none"

\* an explicit source overrode a searchable default and, holding no client,
\* gave the empty sequence without a provider call
C8_Witness ==
    /\ pc = "done"
    /\ source_arg = "semantic_scholar" /\ SEARCH_SOURCE = "arxiv"
    /\ ENABLE_SEMANTIC_SCHOLAR /\ ~s2_client
    /\ results = <<>> /\ fetch_calls = 0

\* C9: isTrusted(url) is false for an empty or absent url; for any other url
\* it is true exactly when url contains, as a case-sensitive substring, a
\* configured trusted-domain entry or the literal arxiv.org/pdf.
C9_TrustPolicy ==
    pure_pc = "returned" => (trusted_out <=> PolicyTrusts(url_in))

\* the policy refused a url that differs from a trusted one only in case
C9_Witness ==
    /\ pure_pc = "returned"
    /\ url_in = UPPER_URL
    /\ TRUSTED_PDF_SOURCES # <<>>
    /\ ~trusted_out

\* the place of a strategy in the production order
StrategyRank(strategy) ==
    CASE strategy = "openAccessPdf" -> 1
      [] strategy = "ArXiv" -> 2
      [] strategy = "PubMed" -> 3
      [] strategy = "DOI" -> 4
      [] strategy = "generic" -> 5

\* C10: the resolver's candidates are in the production order (open-access
\* field, arXiv id, PubMed family, DOI rules, generic DOI) and the url it
\* returns is the first candidate in that order that TrustPolicy trusts; it
\* returns absent exactly when no candidate is trusted.
C10_FirstTrustedInOrder ==
    pure_pc = "returned" =>
        LET trusted == {k \in DOMAIN pdf_urls_out : PolicyTrusts(pdf_urls_out[k].url)}
        IN /\ \A i \in DOMAIN pdf_urls_out, j \in DOMAIN pdf_urls_out :
                i < j => StrategyRank(pdf_urls_out[i].strategy)
                           <= StrategyRank(pdf_urls_out[j].strategy)
           /\ (selected_out = NoneVal) <=> (trusted = {})
           /\ trusted # {} =>
                \E k \in trusted :
                    /\ selected_out = pdf_urls_out[k].url
                    /\ \A m \in trusted : k <= m

\* the first candidate was not trusted and a later one of another url was
\* returned, with a further trusted candidate behind it
C10_Witness ==
    /\ pure_pc = "returned"
    /\ Len(pdf_urls_out) >= 3
    /\ ~PolicyTrusts(pdf_urls_out[1].url)
    /\ selected_out # NoneVal
    /\ \E k \in DOMAIN pdf_urls_out :
        PolicyTrusts(pdf_urls_out[k].url) /\ pdf_urls_out[k].url # selected_out

\* every Record collected so far in the call, with the position of its raw item
Collected ==
    {paper_results[k] : k \in DOMAIN paper_results}
        \cup {additional_papers[k] : k \in DOMAIN additional_papers}
        \cup {results[k] : k \in DOMAIN results}

\* C11: the score of every Record is given by its own raw item alone: 1.0
\* for an arXiv Record, 1.0 + min(citationCount / 10000, 0.2) for a Semantic
\* Scholar Record (1.0 when the count is 0 or absent), so it lies in
\* [1.0, 1.2].
C11_ScoreFormula ==
    \A r \in Collected :
        /\ r.pos \in DOMAIN all_papers
        /\ r.rec.source = "arxiv" => r.rec.score = SCORE_SCALE
        /\ r.rec.source = "semantic_scholar" =>
             LET c == all_papers[r.pos].citationCount
             IN r.rec.score = SCORE_SCALE
                    + (IF c <= MAX_CITATION_BONUS THEN c ELSE MAX_CITATION_BONUS)
        /\ SCORE_SCALE <= r.rec.score
        /\ r.rec.score <= SCORE_SCALE + MAX_CITATION_BONUS

\* a search returned a Record whose bonus was capped beside one whose bonus
\* was not
C11_Witness ==
    /\ pc = "done" /\ called_provider = "semantic_scholar"
    /\ \E i \in DOMAIN results, j \in DOMAIN results :
        /\ all_papers[results[i].pos].citationCount > MAX_CITATION_BONUS
        /\ results[i].rec.score = SCORE_SCALE + MAX_CITATION_BONUS
        /\ results[j].rec.score > SCORE_SCALE
        /\ results[j].rec.score < SCORE_SCALE + MAX_CITATION_BONUS

C13_InvalidQueryShortCircuits ==
    /\ (analysis.kind = "return" /\ ~analysis.is_valid) =>
            /\ a_pc = "done"
            /\ enqueued = <<CLARIFICATION_MESSAGE>>
            /\ core_calls = <<>>
    /\ (a_pc = "done" /\ combined_text # <<>>
            /\ \A i \in DOMAIN combined_text : combined_text[i] = " ") =>
            /\ analysis.kind = "return" /\ ~analysis.is_valid
            /\ enqueued = <<CLARIFICATION_MESSAGE>>
            /\ core_calls = <<>>

\* the collaborator judged a query with text in it invalid, after an earlier
\* search had been run
C13_Witness ==
    /\ a_pc = "done"
    /\ Strip(combined_text) # <<>>
    /\ llm_result.kind = "dict" /\ ~llm_result.is_valid
    /\ enqueued = <<CLARIFICATION_MESSAGE>>
    /\ core_calls = <<>>
    /\ pc = "done"

\* C14: a request whose last search (the fallback search when one ran)
\* returned no Record is answered with the no-papers message, which holds no
\* error text, also when the search was empty because the provider failed.
C14_NoPapersMessage ==
    (a_pc = "done" /\ core_calls # <<>> /\ results = <<>>) =>
        /\ enqueued = <<NO_PAPERS_MESSAGE>>
        /\ ~Contains(ERROR_PREFIX, enqueued[1])
        /\ a_error = <<>>

\* the primary and the fallback search both ran and the provider raised in
\* the fallback search
C14_Witness ==
    /\ a_pc = "done"
    /\ Len(core_calls) = 2
    /\ event = "provider_raised"
    /\ results = <<>>
    /\ enqueued = <<NO_PAPERS_MESSAGE>>

\* C15: when the query-analysis collaborator fails and no fallback is
\* configured, the failure reaches the caller as an error and no search is
\* run; when the fallback is configured, analyze_query returns (valid, the
\* original query, [the original query]) and the original query is the one
\* keyword searched for.
C15_AnalysisFailure ==
    llm_result.kind = "raise" =>
        IF USE_FALLBACK_ON_LLM_ERROR
        THEN /\ analysis = AnalysisReturn(TRUE, combined_text, <<combined_text>>)
             /\ core_calls = <<CoreCall(combined_text, max_search_results)>>
        ELSE /\ analysis.kind = "raise"
             /\ a_pc = "done"
             /\ core_calls = <<>>
             /\ a_error # <<>>
             /\ enqueued = <<ERROR_PREFIX \o a_error>>

\* the collaborator failed, the fallback was configured and the search on the
\* original query returned Records
C15_Witness ==
    /\ a_pc = "done"
    /\ llm_result.kind = "raise"
    /\ USE_FALLBACK_ON_LLM_ERROR
    /\ core_calls = <<CoreCall(combined_text, max_search_results)>>
    /\ search_results # <<>>

\* the Records a loop over batch collects alone, from item i on, until it
\* holds need of them, has read budget items or the mapping raises
RECURSIVE ScanAlone(_, _, _, _, _)
ScanAlone(batch, i, acc, need, budget) ==
    IF i > Len(batch) \/ Len(acc) >= need \/ budget = 0
    THEN [raised |-> FALSE, recs |-> acc]
    ELSE LET out == process_semantic_scholar_paper(batch[i])
         IN IF out.kind = "raise" THEN [raised |-> TRUE, recs |-> acc]
            ELSE ScanAlone(batch, i + 1,
                           IF out.kind = "result" THEN Append(acc, At(out.rec, i)) ELSE acc,
                           need, budget - 1)

\* what a search for m Records returns when it runs alone on batch
SearchAlone(batch, m) ==
    LET first == ScanAlone(batch, 1, <<>>, m, Len(batch))
    IN IF first.raised THEN <<>>
       ELSE IF /\ REQUIRE_PDF_DOWNLOAD
               /\ Len(first.recs) < m
               /\ Len(batch) > Len(first.recs)
               /\ Len(batch) > m
       THEN LET more == ScanAlone(batch, m + 1, <<>>, m - Len(first.recs),
                                  MAX_TOTAL_PAPERS_TO_PROCESS)
            IN IF more.raised THEN first.recs ELSE first.recs \o more.recs
       ELSE first.recs

\* a search run one call at a time, with no exception but those of the
\* mapping, returns what SearchAlone says
SearchAloneIsTheSearch ==
    (pc = "done" /\ called_provider = "semantic_scholar"
        /\ event \notin {"provider_raised", "backup_raised"}) =>
        results = SearchAlone(all_papers, max_results)

\* C16: searches that run at once on one aggregator share no state they
\* change: however their steps interleave, each returns the Records it would
\* return alone on the batch the provider gave it, and the client the
\* aggregator holds is left as it was.
C16_ConcurrentSearchesIndependent ==
    /\ s2_client
    /\ \A i \in Invocations :
        /\ inv[i].pc = "done" =>
             inv[i].results = SearchAlone(inv[i].all_papers, inv[i].max_results)
        /\ \A k \in DOMAIN inv[i].paper_results :
             LET r == inv[i].paper_results[k]
             IN /\ r.pos \in DOMAIN inv[i].all_papers
                /\ process_semantic_scholar_paper(inv[i].all_papers[r.pos]) = Returned(r.rec)

\* two searches whose steps overlapped returned different, non-empty
\* results, one of them with Records of its backup scan
C16_Witness ==
    /\ inv["a"].pc = "done" /\ inv["b"].pc = "done"
    /\ inv["a"].overlapped /\ inv["b"].overlapped
    /\ inv["a"].results # <<>> /\ inv["b"].results # <<>>
    /\ inv["a"].results # inv["b"].results
    /\ inv["a"].additional_papers # <<>>

\* C17: every search, once called, returns: whatever finite batch the
\* provider hands back and wherever its trusted links are, the first pass and
\* the backup scan come to an end.
C17_SearchTerminates == (pc \notin {"idle", "done"}) ~> (pc = "done")

\* a search over a short batch without a trusted link returned after the
\* first pass and the backup scan had both read it to its end
C17_Witness ==
    /\ pc = "done" /\ event = "returned"
    /\ REQUIRE_PDF_DOWNLOAD
    /\ results = <<>>
    /\ Len(all_papers) <= MaxBatch
    /\ examined_first = Len(all_papers)
    /\ papers_processed > 0
    /\ idx > Len(all_papers)

\* the positions of the raw items the first pass has mapped: it reads the
\* batch from its first item on, one item a step
ExaminedInFirstPass == 1..examined_first

\* the positions of the raw items the backup scan has mapped: it reads
\* processed_papers[max_results:] from its first item on, one item a step
ExaminedInBackup == (max_results + 1)..(max_results + papers_processed)

\* C18: the backup scan maps only raw items of the batch that the first pass
\* has not mapped: no raw item is mapped twice in one search.
C18_NoItemExaminedTwice ==
    ExaminedInFirstPass \cap ExaminedInBackup = {}

\* C19: the Records a search collected, those of the first pass followed by
\* those of the backup scan, stand in strictly increasing position of their
\* raw items in the batch.
C19_CollectedInBatchOrder ==
    LET collected == IF pc = "done" THEN results ELSE paper_results \o additional_papers
    IN \A i \in DOMAIN collected, j \in DOMAIN collected :
            i < j => collected[i].pos < collected[j].pos

\* C20: the one provider call of a search asks for max_results * 10 items
\* when trust-filtering is on, whichever provider is called, and for
\* max_results items when it is off.
C20_InitialBatchSize ==
    fetch_calls = 1 =>
        initial_limit = (IF REQUIRE_PDF_DOWNLOAD THEN max_results * 10 ELSE max_results)

\* the raw title is absent: the attribute is missing, or it is there and null
TitleAbsent(paper) == paper.title = Missing \/ paper.title = NoneVal

\* the raw items the search under way has mapped, in either scan
MappedItems ==
    {all_papers[k] : k \in (ExaminedInFirstPass \cup ExaminedInBackup) \cap DOMAIN all_papers}

\* C21: the mapping of a raw item to a Record is total: for a raw item whose
\* fields are each present or absent (missing or null) it does not raise, the
\* Record it gives for an item with an absent title has the title
\* 'Unknown Title', and no search is ended by the mapping of one item.
C21_MappingTotal ==
    called_provider = "semantic_scholar" =>
        /\ event # "map_raised"
        /\ \A paper \in MappedItems :
            LET out == process_semantic_scholar_paper(paper)
            IN /\ out.kind # "raise"
               /\ (out.kind = "result" /\ TitleAbsent(paper))
                    => out.rec.title = <<"Unknown Title">>

\* externalIds holds the identifier: the key is there, with a value that is
\* not the empty string
IdPresent(v) == v # Missing /\ v # <<>>

\* externalIds holds an identifier of the PubMed family
PubMedFamilyPresent(ids) ==
    IdPresent(ids.PubMed) \/ IdPresent(ids.PMID) \/ IdPresent(ids.PMC)

\* the candidates a strategy appended, in order
CandidatesOf(strategy, cands) ==
    SelectSeq(cands, LAMBDA c : c.strategy = strategy)

PMC_PDF_PREFIX == <<"https://", "www.", "ncbi.nlm.nih.gov", "/pmc/articles/PMC">>
PUBMED_PAGE_PREFIX == <<"https://", "pubmed.", "ncbi.nlm.nih.gov", "/">>

\* C22: when a PubMed, PMID or PMC identifier is present on the raw record,
\* the resolver appends exactly one candidate of the PubMed family: the PMC
\* article PDF path when a PMC id is present, else the PubMed landing page.
C22_OnePubMedCandidate ==
    (pure_pc = "returned" /\ PubMedFamilyPresent(paper_in.externalIds)) =>
        LET family == CandidatesOf("PubMed", pdf_urls_out)
        IN /\ Len(family) = 1
           /\ IF IdPresent(paper_in.externalIds.PMC)
              THEN StartsWith(family[1].url, PMC_PDF_PREFIX)
              ELSE StartsWith(family[1].url, PUBMED_PAGE_PREFIX)

GENERIC_PREFIX == <<"https://", "doi.org", "/">>

\* C23: the generic https://doi.org/<doi> candidate is in the list only when
\* a DOI is present and the open-access field, the arXiv id, the PubMed
\* family and the DOI-prefix rules gave no candidate; whenever it is in the
\* list it is the only candidate.
C23_GenericDoiLastResort ==
    (pure_pc = "returned" /\ CandidatesOf("generic", pdf_urls_out) # <<>>) =>
        /\ paper_in.externalIds.DOI # Missing
        /\ CandidatesOf("openAccessPdf", pdf_urls_out) = <<>>
        /\ CandidatesOf("ArXiv", pdf_urls_out) = <<>>
        /\ CandidatesOf("PubMed", pdf_urls_out) = <<>>
        /\ CandidatesOf("DOI", pdf_urls_out) = <<>>
        /\ pdf_urls_out = <<Cand("generic", GENERIC_PREFIX \o paper_in.externalIds.DOI)>>

\* a record with nothing but a DOI that no rule matches has been resolved
C23_Witness ==
    /\ pure_pc = "returned"
    /\ paper_in.externalIds.DOI = DOI_OTHER
    /\ pdf_urls_out = <<Cand("generic", GENERIC_PREFIX \o DOI_OTHER)>>

\* the url the DOI rule table gives for a DOI that begins with one of its
\* prefixes, the prefix being the DOI's first token
RuleTemplate(doi) ==
    CASE Head(doi) = "10.1101" ->
            <<"https://", "www.", "biorxiv.org", "/content/">> \o doi \o <<"v1.full.pdf">>
      [] Head(doi) = "10.1038" ->
            <<"https://", "www.", "nature.com", "/articles/">> \o SubSeq(doi, 3, Len(doi)) \o <<".pdf">>
      [] Head(doi) = "10.1126" ->
            <<"https://", "science.sciencemag.org", "/content/">> \o LastSegment(doi) \o <<".full.pdf">>
      [] Head(doi) = "10.1109" ->
            <<"https://", "ieeexplore.ieee.org", "/stamp/stamp.jsp?arnumber=">> \o LastSegment(doi)
      [] Head(doi) = "10.1145" ->
            <<"https://", "dl.acm.org", "/doi/pdf/">> \o doi
      [] Head(doi) = "10.48550" ->
            <<"https://", "arxiv.org", "/pdf", "/">>
                \o (IF doi[3] = "arXiv." THEN SubSeq(doi, 4, Len(doi))
                                         ELSE SubSeq(doi, 3, Len(doi)))
                \o <<".pdf">>

RulePrefixes == {"10.1101", "10.1038", "10.1126", "10.1109", "10.1145", "10.48550"}

\* the raw record has no open-access PDF field, no arXiv identifier and no
\* identifier of the PubMed family, and its DOI begins with a prefix of the
\* rule table
OnlyRuleDoi(paper) ==
    /\ paper.openAccessPdf = OA_NONE
    /\ paper.externalIds.ArXiv = Missing
    /\ paper.externalIds.PubMed = Missing
    /\ paper.externalIds.PMID = Missing
    /\ paper.externalIds.PMC = Missing
    /\ paper.externalIds.DOI # Missing
    /\ Head(paper.externalIds.DOI) \in RulePrefixes

\* C24: for a raw record with no open-access PDF field, no arXiv identifier
\* and no PubMed-family identifier, whose DOI begins with one prefix of the
\* DOI rule table, the candidate list holds exactly one url: the one built
\* from that prefix's template.
C24_OneRuleCandidate ==
    (pure_pc = "returned" /\ OnlyRuleDoi(paper_in)) =>
        /\ Len(pdf_urls_out) = 1
        /\ pdf_urls_out[1].url = RuleTemplate(paper_in.externalIds.DOI)

\* C25: no raw item of the fetched batch gives more than one Record of the
\* sequence a search returns, whether or not the backup scan ran.
C25_NoDuplicateRecords ==
    pc = "done" =>
        \A i \in DOMAIN results, j \in DOMAIN results :
            results[i].pos = results[j].pos => i = j

\* C26: the paper list handle_search produces never has more entries than
\* the agent's max_search_results, whether its Records came from the primary
\* search on the joined keywords or from the fallback search on the original
\* text.
C26_ListWithinMaxSearchResults ==
    Len(search_results) <= max_search_results

\* C27: every execute() call whose event queue accepts messages enqueues
\* exactly one text message: the welcome message when the request has no
\* text, else the response of handle_search, or one error message when the
\* handling raised; it never enqueues both a response and an error, and
\* nothing is enqueued before the call ends.
C27_ExactlyOneMessage ==
    /\ a_pc \in {"analyze", "primary", "fallback"} => enqueued = <<>>
    /\ a_pc = "done" =>
        /\ Len(enqueued) = 1
        /\ enqueued[1] =
            (IF combined_text = <<>> THEN WELCOME_MESSAGE
             ELSE IF analysis.kind = "raise" THEN ERROR_PREFIX \o analysis.text
             ELSE IF ~analysis.is_valid THEN CLARIFICATION_MESSAGE
             ELSE IF search_results = <<>> THEN NO_PAPERS_MESSAGE
             ELSE format_search_results(search_results))

\* a request with text has ended by an error message, and by that message only
C27_Witness ==
    /\ a_pc = "done"
    /\ combined_text # <<>>
    /\ analysis.kind = "raise"
    /\ enqueued = <<ERROR_PREFIX \o a_error>>

\* seq holds, in batch order, the Record of each raw item of the batch that
\* the mapping accepts, and nothing else: what a first pass that has read
\* the whole batch has accepted
IsFirstPassOfBatch(seq) ==
    /\ \A k \in DOMAIN seq :
          /\ seq[k].pos \in DOMAIN all_papers
          /\ process_semantic_scholar_paper(all_papers[seq[k].pos]) = Returned(seq[k].rec)
    /\ \A i \in DOMAIN seq, j \in DOMAIN seq : i < j => seq[i].pos < seq[j].pos
    /\ \A p \in DOMAIN all_papers :
          process_semantic_scholar_paper(all_papers[p]).kind = "result"
              => \E k \in DOMAIN seq : seq[k].pos = p

\* C28: when the backup scan raises, the search still returns the Records
\* the first pass accepted, unchanged and in the same order, and none of the
\* Records the interrupted scan had collected.
C28_BackupFailureKeepsFirstPass ==
    (pc = "done" /\ event = "backup_raised") =>
        /\ results = paper_results
        /\ IsFirstPassOfBatch(results)

\* the backup scan raised after it had collected a Record, in a search whose
\* first pass had accepted one
C28_Witness ==
    /\ pc = "done"
    /\ event = "backup_raised"
    /\ paper_results # <<>>
    /\ additional_papers # <<>>
    /\ results = paper_results

====
